---- MODULE Spec2Model ----
(***************************************************************************)
(* A model of gcopter/geo_utils.hpp: findInterior, overlap, filterLess,    *)
(* filterVs and the two forms of enumerateVs.                              *)
(*                                                                         *)
(* Numbers are C++ doubles.  A double is modelled as a record              *)
(*   [k |-> "fin", n |-> numerator, d |-> denominator > 0]  (lowest terms) *)
(* or one of the three special values NaN, +inf, -inf, with the IEEE-754   *)
(* rules for the specials.  Finite arithmetic is exact (no rounding); the  *)
(* sign of zero is not modelled, x/0 takes the sign of x.                  *)
(***************************************************************************)
EXTENDS Integers, Sequences, FiniteSets

-----------------------------------------------------------------------------
(* Bounds of the model *)

\* box corners range over 0..MaxCoord (in units of 1/scale)
MaxCoord == 3
\* normals of the box family are scaled by 1..MaxScale
MaxScale == 2
\* longest raw point cloud handed to filterVs directly
MaxPts == 3

-----------------------------------------------------------------------------
(* double arithmetic *)

Abs(i) ==
    IF i < 0 THEN -i ELSE i

RECURSIVE GCD(_, _)
GCD(a, b) ==
    IF b = 0 THEN a ELSE GCD(b, a % b)

Fin(n, d) ==
    LET s == IF d < 0 THEN -1 ELSE 1
        g == GCD(Abs(n), Abs(d))
    IN  [k |-> "fin", n |-> (s * n) \div g, d |-> (s * d) \div g]

Num(i) ==
    [k |-> "fin", n |-> i, d |-> 1]

NaN ==
    [k |-> "nan", n |-> 0, d |-> 1]

PInf ==
    [k |-> "inf", n |-> 1, d |-> 1]

NInf ==
    [k |-> "inf", n |-> -1, d |-> 1]

\* DBL_EPSILON = 2^-52 is smaller than every positive finite value the model
\* can represent; it is kept as a value of its own kind.
DBL_EPSILON ==
    [k |-> "eps", n |-> 1, d |-> 1]

\* a value outside the modelled range: evaluating it is an error
OutOfRange ==
    CHOOSE v \in {} : TRUE

Zero ==
    Num(0)

One ==
    Num(1)

IsFin(x) ==
    x.k = "fin"

IsNaN(x) ==
    x.k = "nan"

isinf(x) ==
    x.k = "inf"

isfinite(x) ==
    x.k \in {"fin", "eps"}

\* sign of a non-NaN value: -1, 0, 1
Sgn(x) ==
    IF x.n > 0 THEN 1 ELSE IF x.n < 0 THEN -1 ELSE 0

DNeg(x) ==
    CASE x.k = "fin" -> [x EXCEPT !.n = -x.n]
      [] x.k = "inf" -> [x EXCEPT !.n = -x.n]
      [] x.k = "nan" -> NaN
      [] OTHER -> OutOfRange

DAdd(x, y) ==
    CASE x.k = "nan" \/ y.k = "nan" -> NaN
      [] x.k = "inf" /\ y.k = "inf" -> IF x.n = y.n THEN x ELSE NaN
      [] x.k = "inf" -> x
      [] y.k = "inf" -> y
      [] x.k = "fin" /\ y.k = "fin" -> Fin(x.n * y.d + y.n * x.d, x.d * y.d)
      [] OTHER -> OutOfRange

DSub(x, y) ==
    DAdd(x, DNeg(y))

DMul(x, y) ==
    CASE x.k = "nan" \/ y.k = "nan" -> NaN
      [] x.k = "inf" \/ y.k = "inf" ->
            IF Sgn(x) * Sgn(y) = 0 THEN NaN
            ELSE IF Sgn(x) * Sgn(y) > 0 THEN PInf ELSE NInf
      [] x.k = "fin" /\ y.k = "fin" -> Fin(x.n * y.n, x.d * y.d)
      [] x.k = "fin" /\ x.n = 0 -> Zero
      [] y.k = "fin" /\ y.n = 0 -> Zero
      [] OTHER -> OutOfRange

DDiv(x, y) ==
    CASE x.k = "nan" \/ y.k = "nan" -> NaN
      [] x.k = "inf" /\ y.k = "inf" -> NaN
      [] x.k = "inf" -> IF Sgn(y) >= 0 THEN x ELSE DNeg(x)
      [] y.k = "inf" -> Zero
      [] x.k = "fin" /\ y.k = "fin" ->
            IF y.n # 0 THEN Fin(x.n * y.d, x.d * y.n)
            ELSE IF x.n = 0 THEN NaN
            ELSE IF x.n > 0 THEN PInf ELSE NInf
      [] OTHER -> OutOfRange

\* operator< on doubles: false whenever an operand is NaN
DLt(x, y) ==
    CASE x.k = "nan" \/ y.k = "nan" -> FALSE
      [] x.k = "inf" /\ y.k = "inf" -> x.n < y.n
      [] x.k = "inf" -> x.n < 0
      [] y.k = "inf" -> y.n > 0
      [] x.k = "fin" /\ y.k = "fin" -> x.n * y.d < y.n * x.d
      [] x.k = "fin" /\ y.k = "eps" -> x.n <= 0
      [] x.k = "eps" /\ y.k = "fin" -> y.n > 0
      [] OTHER -> FALSE

\* operator== on doubles: false whenever an operand is NaN
DEq(x, y) ==
    /\ x.k # "nan"
    /\ y.k # "nan"
    /\ x = y

fabs(x) ==
    CASE x.k = "fin" -> [x EXCEPT !.n = Abs(x.n)]
      [] x.k = "inf" -> PInf
      [] OTHER -> x

\* std::max(a, b) is (a < b) ? b : a
stdmax(a, b) ==
    IF DLt(a, b) THEN b ELSE a

\* std::min(a, b) is (b < a) ? b : a
stdmin(a, b) ==
    IF DLt(b, a) THEN b ELSE a

\* std::round: to the nearest integer, halfway cases away from zero
round(x) ==
    IF x.k # "fin" THEN x
    ELSE IF x.n >= 0 THEN Num((2 * x.n + x.d) \div (2 * x.d))
    ELSE Num(-((2 * (-x.n) + x.d) \div (2 * x.d)))

\* the square root of a perfect square (norms of the modelled rows)
ISqrt(i) ==
    CHOOSE r \in 0..i : r * r = i

-----------------------------------------------------------------------------
(* Eigen vectors: sequences of doubles *)

Vec3(x, y, z) ==
    <<Num(x), Num(y), Num(z)>>

VAdd(u, v) ==
    [i \in 1..3 |-> DAdd(u[i], v[i])]

VSub(u, v) ==
    [i \in 1..3 |-> DSub(u[i], v[i])]

VScaleDiv(u, s) ==
    [i \in 1..3 |-> DDiv(u[i], s)]

dot(u, v) ==
    DAdd(DAdd(DMul(u[1], v[1]), DMul(u[2], v[2])), DMul(u[3], v[3]))

cross(u, v) ==
    << DSub(DMul(u[2], v[3]), DMul(u[3], v[2])),
       DSub(DMul(u[3], v[1]), DMul(u[1], v[3])),
       DSub(DMul(u[1], v[2]), DMul(u[2], v[1])) >>

VFinite(u) ==
    \A i \in 1..3 : IsFin(u[i])

-----------------------------------------------------------------------------
(* Half-space systems: sequences of rows <<h0, h1, h2, h3>> meaning         *)
(* h0*x + h1*y + h2*z + h3 <= 0                                             *)

Row(a, b, c, d) ==
    <<Num(a), Num(b), Num(c), Num(d)>>

leftCols3(row) ==
    <<row[1], row[2], row[3]>>

\* Eigen's norm() of a row's normal; the modelled normals have integer norms
norm(v) ==
    Num(ISqrt(v[1].n * v[1].n + v[2].n * v[2].n + v[3].n * v[3].n))

UnitAxis(j, s) ==
    [i \in 1..3 |-> IF i = j THEN s ELSE 0]

\* the cube [l/k, h/k]^3: k*x - h <= 0, -k*x + l <= 0, and so on for y and z
Box(l, h, k) ==
    [i \in 1..6 |->
        LET j == (i + 1) \div 2
            up == (i % 2 = 1)
            e == UnitAxis(j, IF up THEN k ELSE -k)
        IN  Row(e[1], e[2], e[3], IF up THEN -h ELSE l)]

\* the leading rows kept from a box: 1 a single half-space, 2 a slab,
\* 5 a box open on one side, 6 the whole box
PrefixLens ==
    {1, 2, 5, 6}

Boxes ==
    { SubSeq(Box(l, h, k), 1, r) :
        l \in 0..MaxCoord, h \in 0..MaxCoord, k \in 1..MaxScale, r \in PrefixLens }

\* systems with a row whose normal is zero
ZeroNormalPolys ==
    { <<Row(0, 0, 0, -1)>>,
      <<Row(0, 0, 0, 1)>>,
      <<Row(0, 0, 0, 0), Row(1, 0, 0, -1)>>,
      Box(0, 1, 1) \o <<Row(0, 0, 0, -1)>> }

HPolys ==
    Boxes \cup ZeroNormalPolys

\* the systems overlap is tried on: half-spaces, whole boxes, zero normals
OverlapPolys ==
    { h \in Boxes : Len(h) \in {1, 6} } \cup ZeroNormalPolys

UnitCube ==
    Box(0, 1, 1)

NonZeroNormals(hPoly) ==
    \A i \in 1..Len(hPoly) : leftCols3(hPoly[i]) # <<Zero, Zero, Zero>>

-----------------------------------------------------------------------------
(* sdlp::linprog<4>: minimize c.x subject to A x <= b.  The solver is not   *)
(* part of geo_utils.hpp; it is modelled from its interface: the result is  *)
(* the optimal objective and some optimal point, -inf when the program is   *)
(* unbounded, +inf when it is infeasible.  The optimum is computed in       *)
(* closed form for the programs the module builds from axis-aligned rows:   *)
(* c = (0,0,0,-1) and every row (a e_j, 1) with a possibly zero.            *)

\* what the solver may leave in x when there is no optimum
GarbageX ==
    { <<Zero, Zero, Zero, Zero>>, <<Num(7), Num(-7), Num(7), Num(7)>> }

AllFinite(A, b) ==
    \A i \in 1..Len(A) : IsFin(b[i]) /\ \A j \in 1..4 : IsFin(A[i][j])

\* the axis of row i's normal, 0 for a zero normal
AxisOf(A, i) ==
    IF \A j \in 1..3 : A[i][j] = Zero THEN 0
    ELSE CHOOSE j \in 1..3 : A[i][j] # Zero /\ \A jj \in 1..3 \ {j} : A[i][jj] = Zero

Uppers(A, j) ==
    { i \in 1..Len(A) : AxisOf(A, i) = j /\ A[i][j].n > 0 }

Lowers(A, j) ==
    { i \in 1..Len(A) : AxisOf(A, i) = j /\ A[i][j].n < 0 }

\* rows u: a x + w <= bu and l: -a' x + w <= bl give w <= (bu a' + bl a)/(a + a')
PairBound(A, b, j, u, l) ==
    DDiv(DAdd(DMul(b[u], fabs(A[l][j])), DMul(b[l], A[u][j])),
         DAdd(A[u][j], fabs(A[l][j])))

ShiftBounds(A, b) ==
    { b[i] : i \in { r \in 1..Len(A) : AxisOf(A, r) = 0 } }
    \cup UNION { { PairBound(A, b, j, u, l) : u \in Uppers(A, j), l \in Lowers(A, j) } :
                 j \in 1..3 }

DMinOf(S) ==
    CHOOSE m \in S : \A y \in S : ~DLt(y, m)

DMaxOf(S) ==
    CHOOSE m \in S : \A y \in S : ~DLt(m, y)

\* the optimal x_j at shift w: anywhere between the tightest lower and upper
\* bound; pick selects the low end, the middle or the high end
OptCoord(A, b, j, w, pick) ==
    LET his == { DDiv(DSub(b[u], w), A[u][j]) : u \in Uppers(A, j) }
        los == { DDiv(DSub(b[l], w), A[l][j]) : l \in Lowers(A, j) }
        hi == IF his = {} THEN (IF los = {} THEN One ELSE DAdd(DMaxOf(los), Num(2)))
              ELSE DMinOf(his)
        lo == IF los = {} THEN (IF his = {} THEN Zero ELSE DSub(DMinOf(his), Num(2)))
              ELSE DMaxOf(los)
    IN  CASE pick = 0 -> lo
          [] pick = 1 -> DDiv(DAdd(lo, hi), Num(2))
          [] OTHER -> hi

linprog(c, A, b) ==
    IF c # <<Zero, Zero, Zero, Num(-1)>> \/ \E i \in 1..Len(A) : A[i][4] # One
    THEN OutOfRange
    ELSE IF ~AllFinite(A, b)
    THEN { [minmaxsd |-> o, x |-> g] : o \in {PInf, NInf, NaN, Num(-1), Zero}, g \in GarbageX }
    ELSE IF ShiftBounds(A, b) = {}
    THEN { [minmaxsd |-> NInf, x |-> g] : g \in GarbageX }
    ELSE LET w == DMinOf(ShiftBounds(A, b))
         IN  { [minmaxsd |-> DNeg(w),
                x |-> << OptCoord(A, b, 1, w, pick), OptCoord(A, b, 2, w, pick),
                         OptCoord(A, b, 3, w, pick), w >>] : pick \in 0..2 }

head3(x) ==
    <<x[1], x[2], x[3]>>

-----------------------------------------------------------------------------
(* The state: one call of one function of the module.  Init draws the       *)
(* function and its arguments; the function's action runs it to its end.    *)

VARIABLES
    pc,         \* "call" before the function has run, "done" after
    op,         \* the function called
    hPoly0,     \* its (first) half-space system
    hPoly1,     \* overlap's second system
    epsilon,    \* its tolerance argument
    minmaxsd,   \* the objective linprog returned
    interior,   \* the caller's buffer findInterior writes
    vPoly,      \* the caller's buffer enumerateVs and filterVs write
    ret,        \* "true", "false", "void" (no result) or "abort" (no return)
    rV,         \* the raw point cloud filterVs is given
    mag,        \* filterVs's scale reference
    divByZero,  \* whether filterVs divided by a zero divisor
    inner,      \* the interior point enumerateVs works from
    found,      \* what findInterior returned inside the auto form
    hull        \* enumerateVs's b and the hull oracle's answer, if it was called

vars ==
    <<pc, op, hPoly0, hPoly1, epsilon, minmaxsd, interior, vPoly, ret,
      rV, mag, divByZero, inner, found, hull>>

\* before enumerateVs has called the hull oracle
NoHull ==
    [called |-> FALSE, b |-> <<>>, idBuffer |-> <<>>, failed |-> FALSE]

\* the variables only enumerateVs writes
enumVars ==
    <<inner, found, hull>>

BoolStr(v) ==
    IF v THEN "true" ELSE "false"

\* the tolerances tried: the default 1.0e-6, a coarse one and a negative one
DefaultEps ==
    Fin(1, 1000000)

EpsSet ==
    { DefaultEps, One, Num(-1) }

\* what the caller's buffers may hold before the call
CallerPoints ==
    { Vec3(9, 9, 9), Vec3(0, 0, 0) }

\* c.setZero(); c(3) = -1.0
cShift ==
    <<Zero, Zero, Zero, Num(-1)>>

-----------------------------------------------------------------------------
(* findInterior *)

\* A.leftCols<3>() = normals / hNorm; A.rightCols<1>() = 1
findInteriorA(hPoly) ==
    [i \in 1..Len(hPoly) |->
        LET hNorm == norm(leftCols3(hPoly[i]))
        IN  << DDiv(hPoly[i][1], hNorm), DDiv(hPoly[i][2], hNorm),
               DDiv(hPoly[i][3], hNorm), One >>]

\* b = -hPoly.rightCols<1>() / hNorm
findInteriorB(hPoly) ==
    [i \in 1..Len(hPoly) |-> DDiv(DNeg(hPoly[i][4]), norm(leftCols3(hPoly[i])))]

\* interior = x.head<3>(), whatever the objective is
findInteriorOut(old, x, obj) ==
    head3(x)

\* a slip: the test for an infinite objective left out
findInteriorRet_NoInfTest(obj) ==
    DLt(obj, Zero)

\* return minmaxsd < 0.0 && !std::isinf(minmaxsd)
findInteriorRet(obj) ==
    DLt(obj, Zero) /\ ~isinf(obj)

\* the possible outcomes of findInterior(hPoly, interior)
findInterior(hPoly, old) ==
    { [minmaxsd |-> r.minmaxsd,
       interior |-> findInteriorOut(old, r.x, r.minmaxsd),
       ret |-> findInteriorRet(r.minmaxsd)] :
      r \in linprog(cShift, findInteriorA(hPoly), findInteriorB(hPoly)) }

FindInterior ==
    /\ pc = "call"
    /\ op = "findInterior"
    /\ \E r \in findInterior(hPoly0, interior) :
            /\ minmaxsd' = r.minmaxsd
            /\ interior' = r.interior
            /\ ret' = BoolStr(r.ret)
    /\ pc' = "done"
    /\ UNCHANGED <<op, hPoly0, hPoly1, epsilon, vPoly, rV, mag, divByZero, enumVars>>

-----------------------------------------------------------------------------
(* overlap *)

\* the stacked constraint rows: hPoly0's normals on top, hPoly1's below
overlapA(h0, h1) ==
    [i \in 1..(Len(h0) + Len(h1)) |->
        IF i <= Len(h0) THEN << h0[i][1], h0[i][2], h0[i][3], One >>
        ELSE << h1[i - Len(h0)][1], h1[i - Len(h0)][2], h1[i - Len(h0)][3], One >>]

\* a slip: the bottom rows' offsets not negated
overlapB_BottomSign(h0, h1) ==
    [i \in 1..(Len(h0) + Len(h1)) |->
        IF i <= Len(h0) THEN DNeg(h0[i][4]) ELSE h1[i - Len(h0)][4]]

\* b.topRows(m) = -hPoly0.rightCols<1>(); b.bottomRows(n) = -hPoly1.rightCols<1>()
overlapB(h0, h1) ==
    [i \in 1..(Len(h0) + Len(h1)) |->
        IF i <= Len(h0) THEN DNeg(h0[i][4]) ELSE DNeg(h1[i - Len(h0)][4])]

\* a slip: the margin compared with the wrong sign
overlapRet_PlusEps(obj, eps) ==
    DLt(obj, eps) /\ ~isinf(obj)

\* return minmaxsd < -eps && !std::isinf(minmaxsd)
overlapRet(obj, eps) ==
    DLt(obj, DNeg(eps)) /\ ~isinf(obj)

\* the possible outcomes of overlap(hPoly0, hPoly1, eps)
overlap(h0, h1, eps) ==
    { [minmaxsd |-> r.minmaxsd, ret |-> overlapRet(r.minmaxsd, eps)] :
      r \in linprog(cShift, overlapA(h0, h1), overlapB(h0, h1)) }

Overlap ==
    /\ pc = "call"
    /\ op = "overlap"
    /\ \E r \in overlap(hPoly0, hPoly1, epsilon) :
            /\ minmaxsd' = r.minmaxsd
            /\ ret' = BoolStr(r.ret)
    /\ pc' = "done"
    /\ UNCHANGED <<op, hPoly0, hPoly1, epsilon, interior, vPoly, rV, mag, divByZero, enumVars>>

-----------------------------------------------------------------------------
(* filterLess and filterVs *)

\* a slip: the third coordinate never compared
filterLess_NoZ(l, r) ==
    \/ DLt(l[1], r[1])
    \/ /\ DEq(l[1], r[1])
       /\ DLt(l[2], r[2])

\* l(0) < r(0) || (l(0) == r(0) && (l(1) < r(1) || (l(1) == r(1) && l(2) < r(2))))
filterLess(l, r) ==
    \/ DLt(l[1], r[1])
    \/ /\ DEq(l[1], r[1])
       /\ \/ DLt(l[2], r[2])
          \/ /\ DEq(l[2], r[2])
             /\ DLt(l[3], r[3])

\* std::set::find: an element neither less nor greater than the key (with
\* NaN keys, for which filterLess is no ordering, this is still what the
\* search returns on the one-element sets that arise)
filterFind(filter, q) ==
    \E k \in filter : ~filterLess(k, q) /\ ~filterLess(q, k)

Coeffs(V) ==
    { V[i][j] : i \in 1..Len(V), j \in 1..3 }

\* rV.maxCoeff(): the largest coefficient.  Eigen leaves the result open when
\* a coefficient is NaN: the NaN or the largest of the others.
maxCoeff(V) ==
    LET nums == { x \in Coeffs(V) : ~IsNaN(x) }
    IN  (IF nums = {} THEN {} ELSE { DMaxOf(nums) })
        \cup (IF nums = Coeffs(V) THEN {} ELSE { NaN })

minCoeff(V) ==
    LET nums == { x \in Coeffs(V) : ~IsNaN(x) }
    IN  (IF nums = {} THEN {} ELSE { DMinOf(nums) })
        \cup (IF nums = Coeffs(V) THEN {} ELSE { NaN })

\* mag = std::max(fabs(rV.maxCoeff()), fabs(rV.minCoeff())); on an empty
\* matrix both reductions read no coefficient and the value is arbitrary
filterMags(V) ==
    IF Len(V) = 0 THEN { Zero, One, NaN }
    ELSE { stdmax(fabs(hi), fabs(lo)) : hi \in maxCoeff(V), lo \in minCoeff(V) }

\* res = mag * std::max(fabs(epsilon) / mag, DBL_EPSILON)
filterRes(m, eps) ==
    DMul(m, stdmax(DDiv(fabs(eps), m), DBL_EPSILON))

\* quanti = (rV.col(i) / res).array().round()
quantize(v, res) ==
    [j \in 1..3 |-> round(DDiv(v[j], res))]

\* the divisors of filterVs: mag, and res when there is a column to quantize
filterDivisors(V, m, eps) ==
    { m } \cup (IF Len(V) = 0 THEN {} ELSE { filterRes(m, eps) })

\* the loop over the columns: filter holds the keys seen, out the points kept
RECURSIVE filterLoop(_, _, _, _, _)
filterLoop(V, res, i, filter, out) ==
    IF i > Len(V) THEN out
    ELSE LET quanti == quantize(V[i], res)
         IN  IF ~filterFind(filter, quanti)
             THEN filterLoop(V, res, i + 1, filter \cup {quanti}, Append(out, V[i]))
             ELSE filterLoop(V, res, i + 1, filter, out)

\* filterVs(rV, epsilon, fV) once mag is known: the value left in fV
filterVs(V, eps, m) ==
    filterLoop(V, filterRes(m, eps), 1, {}, <<>>)

FilterVs ==
    /\ pc = "call"
    /\ op = "filterVs"
    /\ \E m \in filterMags(rV) :
            /\ mag' = m
            /\ divByZero' = (Zero \in filterDivisors(rV, m, epsilon))
            /\ vPoly' = filterVs(rV, epsilon, m)
    /\ ret' = "void"
    /\ pc' = "done"
    /\ UNCHANGED <<op, hPoly0, hPoly1, epsilon, minmaxsd, interior, rV, enumVars>>

-----------------------------------------------------------------------------
(* The point clouds filterVs is tried on *)

Pt(x, y, z) ==
    <<x, y, z>>

\* points apart on one axis only, a pair closer than a coarse tolerance, and
\* the origin
CloudPoints ==
    { Vec3(0, 0, 0), Vec3(1, 0, 0), Pt(Fin(5, 4), Zero, Zero), Vec3(0, 1, 0),
      Vec3(0, 0, 1), Vec3(0, 0, -1), Vec3(1, 1, 1) }

RECURSIVE SeqsUpTo(_, _)
SeqsUpTo(S, n) ==
    IF n = 0 THEN { <<>> }
    ELSE LET shorter == SeqsUpTo(S, n - 1)
         IN  shorter \cup { Append(q, x) : q \in { t \in shorter : Len(t) = n - 1 }, x \in S }

Clouds ==
    SeqsUpTo(CloudPoints, MaxPts) \ { <<>> }

InitFilter ==
    /\ pc = "call"
    /\ op = "filterVs"
    /\ rV \in Clouds
    /\ epsilon \in EpsSet
    /\ hPoly0 = <<>>
    /\ hPoly1 = <<>>
    /\ minmaxsd = Zero
    /\ interior = Vec3(9, 9, 9)
    /\ vPoly = <<>>
    /\ ret = "void"
    /\ mag = Zero
    /\ divByZero = FALSE
    /\ inner = Vec3(0, 0, 0)
    /\ found = "void"
    /\ hull = NoHull

NextFilter ==
    FilterVs

SpecFilter ==
    InitFilter /\ [][NextFilter]_vars

-----------------------------------------------------------------------------
(* The linear-programming functions: findInterior and overlap *)

InitLP ==
    /\ pc = "call"
    /\ \/ /\ op = "findInterior"
          /\ hPoly0 \in HPolys
          /\ hPoly1 = <<>>
          /\ epsilon = Zero
          /\ interior \in CallerPoints
       \/ /\ op = "overlap"
          /\ hPoly0 \in OverlapPolys
          /\ hPoly1 \in OverlapPolys
          /\ epsilon \in EpsSet
          /\ interior = Vec3(9, 9, 9)
    /\ minmaxsd = Zero
    /\ vPoly = <<>>
    /\ ret = "void"
    /\ rV = <<>>
    /\ mag = Zero
    /\ divByZero = FALSE
    /\ inner = Vec3(0, 0, 0)
    /\ found = "void"
    /\ hull = NoHull

NextLP ==
    \/ FindInterior
    \/ Overlap

SpecLP ==
    InitLP /\ [][NextLP]_vars

-----------------------------------------------------------------------------
(* quickhull::QuickHull<double>::getConvexHull and its index buffer.  The   *)
(* hull library is not part of geo_utils.hpp; it is modelled from its       *)
(* interface: a flat sequence of index triples, one per triangular facet.   *)
(* Indices are 1-based here.  Arithmetic being exact, the merge tolerance   *)
(* plays no part.  Where more than three points lie on one facet plane,     *)
(* every supporting triple is given; all of them lead to one primal vertex. *)

\* quickhull::defaultEps<double>()
quickhullDefaultEps ==
    Fin(1, 10000000)

\* which side of the plane through P[i], P[j], P[k] the point P[l] lies on
Side(P, i, j, k, l) ==
    Sgn(dot(cross(VSub(P[j], P[i]), VSub(P[k], P[i])), VSub(P[l], P[i])))

\* a cloud the library can build a hull from: finite and not flat
HullValid(P) ==
    /\ \A i \in 1..Len(P) : VFinite(P[i])
    /\ \E i, j, k, l \in 1..Len(P) : Side(P, i, j, k, l) # 0

\* the first index holding the same point as index i
FirstIndex(P, i) ==
    CHOOSE r \in 1..i : P[r] = P[i] /\ \A q \in 1..(r - 1) : P[q] # P[i]

Facets(P) ==
    { t \in (1..Len(P)) \X (1..Len(P)) \X (1..Len(P)) :
        /\ t[1] < t[2]
        /\ t[2] < t[3]
        /\ \A e \in 1..3 : FirstIndex(P, t[e]) = t[e]
        /\ cross(VSub(P[t[2]], P[t[1]]), VSub(P[t[3]], P[t[1]])) # <<Zero, Zero, Zero>>
        /\ \/ \A l \in 1..Len(P) : Side(P, t[1], t[2], t[3], l) >= 0
           \/ \A l \in 1..Len(P) : Side(P, t[1], t[2], t[3], l) <= 0 }

TripleLess(s, t) ==
    \/ s[1] < t[1]
    \/ s[1] = t[1] /\ s[2] < t[2]
    \/ s[1] = t[1] /\ s[2] = t[2] /\ s[3] < t[3]

RECURSIVE SortTriples(_)
SortTriples(T) ==
    IF T = {} THEN <<>>
    ELSE LET m == CHOOSE t \in T : \A u \in T \ {t} : TripleLess(t, u)
         IN  <<m>> \o SortTriples(T \ {m})

\* the possible answers: the facets of the hull, or, when no valid hull can
\* be built, an empty or a degenerate index buffer
getConvexHull(P, ccw, useOriginalIndices, eps) ==
    IF HullValid(P)
    THEN { [idBuffer |-> SortTriples(Facets(P)), failed |-> FALSE] }
    ELSE { [idBuffer |-> <<>>, failed |-> TRUE],
           [idBuffer |-> << <<1, 1, 1>> >>, failed |-> TRUE] }

-----------------------------------------------------------------------------
(* enumerateVs, interior-supplied form *)

\* a slip: the translation added instead of subtracted
enumerateB_PlusInner(hPoly, p) ==
    [i \in 1..Len(hPoly) |->
        DAdd(DNeg(hPoly[i][4]), dot(leftCols3(hPoly[i]), p))]

\* b = -hPoly.rightCols<1>() - hPoly.leftCols<3>() * inner
enumerateB(hPoly, p) ==
    [i \in 1..Len(hPoly) |->
        DSub(DNeg(hPoly[i][4]), dot(leftCols3(hPoly[i]), p))]

\* A = (hPoly.leftCols<3>().array().colwise() / b.array()).transpose()
enumerateA(hPoly, b) ==
    [i \in 1..Len(hPoly) |-> VScaleDiv(leftCols3(hPoly[i]), b[i])]

\* qhullEps = std::min(epsilon, quickhull::defaultEps<double>())
qhullEps(eps) ==
    stdmin(eps, quickhullDefaultEps)

\* the body of the loop over the facets: rV.col(i)
rawVertex(A, t) ==
    LET point == A[t[2]]
        edge0 == VSub(point, A[t[1]])
        edge1 == VSub(A[t[3]], point)
        normal == cross(edge0, edge1)
    IN  VScaleDiv(normal, dot(normal, point))

rawVertices(A, idBuffer) ==
    [i \in 1..Len(idBuffer) |-> rawVertex(A, idBuffer[i])]

\* a slip: the vertices not translated back
translateBack_Forgotten(fV, p) ==
    fV

\* vPoly = (vPoly.array().colwise() + inner.array()).eval()
translateBack(fV, p) ==
    [i \in 1..Len(fV) |-> VAdd(fV[i], p)]

\* the possible outcomes of enumerateVs(hPoly, inner, vPoly, epsilon).  With
\* no facet, filterVs reduces an empty matrix: the call ends there (aborted),
\* or goes on with an arbitrary mag.
enumerateVs(hPoly, p, eps) ==
    LET b == enumerateB(hPoly, p)
        A == enumerateA(hPoly, b)
    IN  UNION {
          LET raw == rawVertices(A, h.idBuffer)
          IN  { [b |-> b, idBuffer |-> h.idBuffer, failed |-> h.failed, rV |-> raw,
                 mag |-> m, divByZero |-> (Zero \in filterDivisors(raw, m, eps)),
                 vPoly |-> translateBack(filterVs(raw, eps, m), p),
                 aborted |-> FALSE] : m \in filterMags(raw) }
              \cup (IF Len(raw) # 0 THEN {}
                    ELSE { [b |-> b, idBuffer |-> h.idBuffer, failed |-> h.failed,
                            rV |-> raw, mag |-> Zero, divByZero |-> FALSE,
                            vPoly |-> <<>>, aborted |-> TRUE] })
          : h \in getConvexHull(A, FALSE, TRUE, qhullEps(eps)) }

EnumerateVs ==
    /\ pc = "call"
    /\ op = "enumerateVs"
    /\ \E o \in enumerateVs(hPoly0, inner, epsilon) :
            /\ hull' = [called |-> TRUE, b |-> o.b, idBuffer |-> o.idBuffer,
                               failed |-> o.failed]
            /\ rV' = o.rV
            /\ mag' = o.mag
            /\ divByZero' = o.divByZero
            /\ vPoly' = IF o.aborted THEN vPoly ELSE o.vPoly
            /\ ret' = IF o.aborted THEN "abort" ELSE "void"
    /\ pc' = "done"
    /\ UNCHANGED <<op, hPoly0, hPoly1, epsilon, minmaxsd, interior, inner, found>>

-----------------------------------------------------------------------------
(* enumerateVs, auto form *)

\* a slip: the enumeration run whatever findInterior returned
autoProceeds_Always(ok) ==
    TRUE

\* if (findInterior(hPoly, inner)) { ... return true; } else { return false; }
autoProceeds(ok) ==
    ok

EnumerateVsAuto ==
    /\ pc = "call"
    /\ op = "enumerateVsAuto"
    /\ \E r \in findInterior(hPoly0, inner) :
            /\ inner' = r.interior
            /\ minmaxsd' = r.minmaxsd
            /\ found' = BoolStr(r.ret)
            /\ IF autoProceeds(r.ret)
               THEN \E o \in enumerateVs(hPoly0, r.interior, epsilon) :
                        /\ hull' = [called |-> TRUE, b |-> o.b, idBuffer |-> o.idBuffer,
                               failed |-> o.failed]
                        /\ rV' = o.rV
                        /\ mag' = o.mag
                        /\ divByZero' = o.divByZero
                        /\ vPoly' = IF o.aborted THEN vPoly ELSE o.vPoly
                        /\ ret' = IF o.aborted THEN "abort" ELSE "true"
               ELSE /\ ret' = "false"
                    /\ UNCHANGED <<hull, rV, mag, divByZero, vPoly>>
    /\ pc' = "done"
    /\ UNCHANGED <<op, hPoly0, hPoly1, epsilon, interior>>

-----------------------------------------------------------------------------
(* The systems and interior points enumerateVs is tried on *)

\* the tetrahedron x, y, z >= 0, x + y + z <= 1 and the box
\* [0,1] x [0,2] x [1/2,1]
Tetrahedron ==
    << Row(1, 1, 1, -1), Row(-1, 0, 0, 0), Row(0, -1, 0, 0), Row(0, 0, -1, 0) >>

UnevenBox ==
    << Row(1, 0, 0, -1), Row(-1, 0, 0, 0), Row(0, 1, 0, -2), Row(0, -1, 0, 0),
       Row(0, 0, 2, -2), Row(0, 0, -2, 1) >>

\* interior points supplied by the caller: inside, on the boundary of or
\* outside the systems tried
InnerPoints ==
    { Pt(Fin(1, 2), Fin(1, 2), Fin(1, 2)), Pt(Fin(1, 4), Fin(1, 8), Fin(5, 8)),
      Vec3(1, 1, 1), Vec3(0, 0, 0), Pt(Fin(5, 4), Fin(5, 4), Fin(5, 4)) }

InitEnum ==
    /\ pc = "call"
    /\ \/ /\ op = "enumerateVs"
          /\ hPoly0 \in HPolys \cup { Tetrahedron, UnevenBox }
          /\ inner \in InnerPoints
       \/ /\ op = "enumerateVsAuto"
          /\ hPoly0 \in HPolys \cup { UnevenBox }
          /\ inner = Vec3(0, 0, 0)
    /\ epsilon \in EpsSet
    /\ hPoly1 = <<>>
    /\ minmaxsd = Zero
    /\ interior = Vec3(9, 9, 9)
    /\ vPoly = << Vec3(9, 9, 9) >>
    /\ ret = "void"
    /\ rV = <<>>
    /\ mag = Zero
    /\ divByZero = FALSE
    /\ found = "void"
    /\ hull = NoHull

NextEnum ==
    \/ EnumerateVs
    \/ EnumerateVsAuto

SpecEnum ==
    InitEnum /\ [][NextEnum]_vars

-----------------------------------------------------------------------------
(* Properties of findInterior and overlap, under SpecLP *)

\* a whole box of the family, and its parameters
IsBox(h) ==
    /\ Len(h) = 6
    /\ h[1][1].n > 0
    /\ h = Box(h[2][4].n, -h[1][4].n, h[1][1].n)

BoxLo(h) ==
    Fin(h[2][4].n, h[1][1].n)

BoxHi(h) ==
    Fin(-h[1][4].n, h[1][1].n)

\* the rational x is below zero
Negative(x) ==
    x.k = "fin" /\ x.n < 0

\* C1: findInterior returns true exactly when the objective linprog returned
\* is finite and strictly negative; it returns false for a zero or positive
\* optimum (a box that is empty or flat) and for an objective of +inf or -inf.
C1_FindInteriorResult ==
    (pc = "done" /\ op = "findInterior") =>
        /\ (ret = "true") <=> Negative(minmaxsd)
        /\ (minmaxsd \in {PInf, NInf}) => ret = "false"
        /\ (IsBox(hPoly0) /\ ~DLt(BoxLo(hPoly0), BoxHi(hPoly0))) =>
                (ret = "false" /\ ~Negative(minmaxsd))

C1_Witness ==
    /\ pc = "done"
    /\ op = "findInterior"
    /\ minmaxsd = NInf
    /\ ret = "false"

C3_OverlapSymmetric ==
    (pc = "done" /\ op = "overlap") =>
        \A r \in overlap(hPoly1, hPoly0, epsilon) : BoolStr(r.ret) = ret

\* the cubes [0,1]^3 and [1/2,3/2]^3 overlap, in either order
C3_Witness ==
    /\ pc = "done"
    /\ op = "overlap"
    /\ hPoly0 = Box(1, 3, 2)
    /\ hPoly1 = UnitCube
    /\ epsilon = DefaultEps
    /\ ret = "true"

\* C8: when findInterior returns false, the caller's interior is as it was
C8_FailureLeavesInterior ==
    [][(pc = "call" /\ op = "findInterior" /\ ret' = "false") => interior' = interior]_vars

-----------------------------------------------------------------------------
(* Properties of filterVs, under SpecFilter *)

\* the key of column i, as filterVs computes it
KeyOf(i) ==
    quantize(rV[i], filterRes(mag, epsilon))

\* the columns whose key differs from the key of every earlier column
FirstOfKey ==
    { i \in 1..Len(rV) : \A j \in 1..(i - 1) : KeyOf(j) # KeyOf(i) }

RECURSIVE Pick(_, _, _)
Pick(V, keep, i) ==
    IF i > Len(V) THEN <<>>
    ELSE (IF i \in keep THEN <<V[i]>> ELSE <<>>) \o Pick(V, keep, i + 1)

\* C4: filterVs returns the input points whose key differs from the key of
\* every earlier point, in input order; so a cloud of pairwise distinct keys
\* comes back unchanged and copies of one point come back as one point.
C4_FirstOccurrences ==
    (pc = "done" /\ op = "filterVs") =>
        /\ vPoly = Pick(rV, FirstOfKey, 1)
        /\ \A i, j \in 1..Len(vPoly) :
                i # j => quantize(vPoly[i], filterRes(mag, epsilon))
                         # quantize(vPoly[j], filterRes(mag, epsilon))
        /\ (\A i, j \in 1..Len(rV) : i # j => KeyOf(i) # KeyOf(j)) => vPoly = rV
        /\ (\A i \in 1..Len(rV) : rV[i] = rV[1]) => vPoly = <<rV[1]>>

\* (1,0,0) and (5/4,0,0) share a key at eps = 1; (0,0,1) has its own
C4_Witness ==
    /\ pc = "done"
    /\ op = "filterVs"
    /\ epsilon = One
    /\ rV = << Vec3(1, 0, 0), Pt(Fin(5, 4), Zero, Zero), Vec3(0, 0, 1) >>
    /\ vPoly = << Vec3(1, 0, 0), Vec3(0, 0, 1) >>

\* C10: on a cloud whose coordinates are all zero filterVs divides by no zero
\* and returns exactly one point, the first
C10_ZeroCloud ==
    (pc = "done" /\ op = "filterVs" /\ \A x \in Coeffs(rV) : x = Zero) =>
        /\ ~divByZero
        /\ vPoly = <<rV[1]>>

-----------------------------------------------------------------------------
(* Properties of enumerateVs, under SpecEnum *)

Positive(x) ==
    x.k = "fin" /\ x.n > 0

\* p satisfies every inequality of h with slack
StrictlyInside(h, p) ==
    \A i \in 1..Len(h) : Negative(DAdd(dot(leftCols3(h[i]), p), h[i][4]))

Det3(u, v, w) ==
    dot(u, cross(v, w))

\* the point where the planes of rows i, j, k of h meet (Cramer's rule)
Meet(h, i, j, k) ==
    LET ni == leftCols3(h[i])
        nj == leftCols3(h[j])
        nk == leftCols3(h[k])
        t1 == cross(nj, nk)
        t2 == cross(nk, ni)
        t3 == cross(ni, nj)
        sum == [e \in 1..3 |->
                  DAdd(DAdd(DMul(DNeg(h[i][4]), t1[e]), DMul(DNeg(h[j][4]), t2[e])),
                       DMul(DNeg(h[k][4]), t3[e]))]
    IN  VScaleDiv(sum, Det3(ni, nj, nk))

\* the extreme points of { p : h p <= 0 }: where three independent planes
\* meet in a point that satisfies every row
TrueVertices(h) ==
    { Meet(h, t[1], t[2], t[3]) :
        t \in { u \in (1..Len(h)) \X (1..Len(h)) \X (1..Len(h)) :
                  /\ u[1] < u[2]
                  /\ u[2] < u[3]
                  /\ Det3(leftCols3(h[u[1]]), leftCols3(h[u[2]]), leftCols3(h[u[3]])) # Zero
                  /\ \A r \in 1..Len(h) :
                        ~Positive(DAdd(dot(leftCols3(h[r]), Meet(h, u[1], u[2], u[3])),
                                       h[r][4])) } }

\* the bounded systems with a non-empty interior among those tried
Solids ==
    { h \in Boxes : IsBox(h) /\ DLt(BoxLo(h), BoxHi(h)) } \cup { Tetrahedron, UnevenBox }

Range(q) ==
    { q[i] : i \in 1..Len(q) }

C6_HullFailureReported ==
    (pc = "done" /\ op = "enumerateVsAuto" /\ hull.called /\ hull.failed) => ret = "false"

\* C7 as stated, for any positive tolerance: for a bounded system with an
\* interior and a strictly interior point, enumerateVs returns every extreme
\* point exactly once.
C7_AnyTolerance ==
    ( /\ pc = "done"
      /\ op \in {"enumerateVs", "enumerateVsAuto"}
      /\ hull.called
      /\ hPoly0 \in Solids
      /\ StrictlyInside(hPoly0, inner)
      /\ Positive(epsilon) ) =>
        /\ Range(vPoly) = TrueVertices(hPoly0)
        /\ Cardinality(Range(vPoly)) = Len(vPoly)

\* C7, amended: for a bounded system with an interior, a strictly interior
\* point and the default tolerance 1e-6, enumerateVs makes one raw vertex per
\* facet of the dual hull and returns every extreme point exactly once; for
\* the unit cube these are the 8 corners in {0,1}^3.
C7_ExtremePointsOnce ==
    ( /\ pc = "done"
      /\ op \in {"enumerateVs", "enumerateVsAuto"}
      /\ hull.called
      /\ hPoly0 \in Solids
      /\ StrictlyInside(hPoly0, inner)
      /\ epsilon = DefaultEps ) =>
        /\ ret \in {"void", "true"}
        /\ ~hull.failed
        /\ Len(rV) = Len(hull.idBuffer)
        /\ Range(vPoly) = TrueVertices(hPoly0)
        /\ Cardinality(Range(vPoly)) = Len(vPoly)
        /\ hPoly0 = UnitCube =>
              /\ Len(vPoly) = 8
              /\ Range(vPoly) = { Vec3(x, y, z) : x \in {0, 1}, y \in {0, 1}, z \in {0, 1} }

\* the unit cube, from an interior point off its centre
C7_Witness ==
    /\ pc = "done"
    /\ op = "enumerateVs"
    /\ hPoly0 = UnitCube
    /\ inner = Pt(Fin(1, 4), Fin(1, 8), Fin(5, 8))
    /\ epsilon = DefaultEps
    /\ Len(rV) = 8
    /\ Len(vPoly) = 8

\* C9: every translated right-hand side b_i is strictly positive when the
\* interior point is strictly inside, and whenever the auto form goes on to
\* the enumeration of a system all of whose normals are non-zero
C9_TranslatedRhsPositive ==
    (pc = "done" /\ hull.called) =>
        /\ (op = "enumerateVs" /\ StrictlyInside(hPoly0, inner)) =>
                \A i \in 1..Len(hPoly0) : Positive(hull.b[i])
        /\ (op = "enumerateVsAuto" /\ NonZeroNormals(hPoly0)) =>
                \A i \in 1..Len(hPoly0) : Positive(hull.b[i])

\* the auto form on the box [1/2,1]^3 open on one side: every b_i is positive
C9_Witness ==
    /\ pc = "done"
    /\ op = "enumerateVsAuto"
    /\ hPoly0 = SubSeq(Box(1, 2, 2), 1, 5)
    /\ found = "true"
    /\ hull.called
    /\ \A i \in 1..5 : Positive(hull.b[i])

====
